---- MODULE Spec2Model ----
(***************************************************************************)
(* Parametric cubic spline (parametric_cubic_spline.h and its impl file):  *)
(* Spline::set builds the moment system (compute_moments), solves it in    *)
(* place (tdma, with the Sherman-Morrison path for periodic ends), and     *)
(* Spline::eval evaluates the cubic on the stored points and moments.      *)
(*                                                                         *)
(* Arithmetic is exact: a value of the element type T is a rational        *)
(* <<num, den>> in lowest terms with den > 0; the result of a division by  *)
(* zero is the non-finite value NaN == <<0, 0>>, which every operation     *)
(* propagates.  Buffers are functions over 0 .. len-1 and keep the         *)
(* source's row-major indexing i*num_dims+j.                               *)
(***************************************************************************)
EXTENDS Integers, Sequences, FiniteSets, TLC

(***************************************************************************)
(* Bounds of the model.                                                    *)
(***************************************************************************)
MaxPoints == 4
MaxDims == 2

(***************************************************************************)
(* Exact arithmetic on the element type T.                                 *)
(***************************************************************************)
Abs(x) == IF x < 0 THEN -x ELSE x

RECURSIVE GCD(_, _)
GCD(x, y) == IF y = 0 THEN x ELSE GCD(y, x % y)

NaN == <<0, 0>>
IsNaN(x) == x[2] = 0

Q(n, d) ==
    IF d = 0 THEN NaN
    ELSE LET g == GCD(Abs(n), Abs(d))
             s == IF d < 0 THEN -1 ELSE 1
         IN  <<(s * n) \div g, (s * d) \div g>>

R(i) == <<i, 1>>
Zero == R(0)
One == R(1)

\* sums and products cancel common factors before multiplying
RAdd(x, y) == IF IsNaN(x) \/ IsNaN(y) THEN NaN
              ELSE LET g == GCD(x[2], y[2])
                   IN  Q(x[1] * (y[2] \div g) + y[1] * (x[2] \div g),
                         (x[2] \div g) * y[2])
RSub(x, y) == IF IsNaN(x) \/ IsNaN(y) THEN NaN
              ELSE LET g == GCD(x[2], y[2])
                   IN  Q(x[1] * (y[2] \div g) - y[1] * (x[2] \div g),
                         (x[2] \div g) * y[2])
RMul(x, y) == IF IsNaN(x) \/ IsNaN(y) THEN NaN
              ELSE LET g1 == GCD(Abs(x[1]), y[2])
                       g2 == GCD(Abs(y[1]), x[2])
                   IN  Q((x[1] \div g1) * (y[1] \div g2),
                         (x[2] \div g2) * (y[2] \div g1))
RDiv(x, y) == IF IsNaN(x) \/ IsNaN(y) THEN NaN
              ELSE IF y[1] = 0 THEN NaN
              ELSE IF y[1] < 0 THEN RMul(x, <<-y[2], -y[1]>>)
              ELSE RMul(x, <<y[2], y[1]>>)
RNeg(x) == IF IsNaN(x) THEN NaN ELSE <<-x[1], x[2]>>
RLt(x, y) == ~IsNaN(x) /\ ~IsNaN(y) /\ x[1] * y[2] < y[1] * x[2]
RLe(x, y) == ~IsNaN(x) /\ ~IsNaN(y) /\ x[1] * y[2] <= y[1] * x[2]
RAbs(x) == IF IsNaN(x) THEN NaN ELSE <<Abs(x[1]), x[2]>>

\* floor(x) and fmod(x, 1.0) of <cmath>, for finite x
RFloor(x) == x[1] \div x[2]
RTrunc(x) == IF x[1] >= 0 THEN x[1] \div x[2] ELSE -((-x[1]) \div x[2])
RFmod1(x) == RSub(x, R(RTrunc(x)))

Six == R(6)
Sixth == Q(1, 6)

(***************************************************************************)
(* enum class BoundaryCondition                                            *)
(***************************************************************************)
Natural == "Natural"
Hermite == "Hermite"
Periodic == "Periodic"
NotAKnot == "NotAKnot"
BoundaryCondition == {Natural, Hermite, Periodic, NotAKnot}

\* a tangent argument: a null pointer, or a pointer to num_dims values
NullTangent == [null |-> TRUE, v |-> <<>>]
Tangent(v) == [null |-> FALSE, v |-> v]

(***************************************************************************)
(* Spline::compute_moments, the row loop: the diagonals a, b, c and the    *)
(* right-hand side d (stored in the moment buffer m) before the solve.     *)
(* points is the caller's buffer of len values; a read at an index outside *)
(* it yields the indeterminate value g.                                    *)
(***************************************************************************)
PointAt(points, len, k, g) == IF k \in 0 .. len - 1 THEN points[k] ELSE g

\* mutant of LeftHermiteD: an absent tangent is read as 1 in every component
LeftHermiteDNullAsOne(points, len, num_dims, left_tangent, g, j) ==
    LET tangent_component == IF left_tangent.null THEN One ELSE left_tangent.v[j]
    IN  RMul(Six, RSub(RSub(PointAt(points, len, num_dims + j, g),
                            PointAt(points, len, j, g)),
                       tangent_component))

\* case BoundaryCondition::Hermite of the left switch
LeftHermiteD(points, len, num_dims, left_tangent, g, j) ==
    LET tangent_component == IF left_tangent.null THEN Zero ELSE left_tangent.v[j]
    IN  RMul(Six, RSub(RSub(PointAt(points, len, num_dims + j, g),
                            PointAt(points, len, j, g)),
                       tangent_component))

\* mutant of RightHermiteD: the last point in place of its predecessor
RightHermiteDSamePoint(points, len, num_points, num_dims, right_tangent, g, j) ==
    LET i == num_points - 1
        tangent_component == IF right_tangent.null THEN Zero ELSE right_tangent.v[j]
    IN  RMul(Six, RSub(tangent_component,
                       RSub(PointAt(points, len, i * num_dims + j, g),
                            PointAt(points, len, (num_points - 1) * num_dims + j, g))))

\* case BoundaryCondition::Hermite of the right switch
RightHermiteD(points, len, num_points, num_dims, right_tangent, g, j) ==
    LET i == num_points - 1
        tangent_component == IF right_tangent.null THEN Zero ELSE right_tangent.v[j]
    IN  RMul(Six, RSub(tangent_component,
                       RSub(PointAt(points, len, i * num_dims + j, g),
                            PointAt(points, len, (i - 1) * num_dims + j, g))))

\* mutant of LeftPeriodicD: the difference to the last point is missing
LeftPeriodicDNoWrap(points, len, num_points, num_dims, g, j) ==
    RMul(Six, RSub(PointAt(points, len, num_dims + j, g),
                   PointAt(points, len, j, g)))

\* case BoundaryCondition::Periodic of the left switch
LeftPeriodicD(points, len, num_points, num_dims, g, j) ==
    RMul(Six, RSub(RSub(PointAt(points, len, num_dims + j, g),
                        PointAt(points, len, j, g)),
                   RSub(PointAt(points, len, j, g),
                        PointAt(points, len, (num_points - 1) * num_dims + j, g))))

\* case BoundaryCondition::Periodic of the right switch
RightPeriodicD(points, len, num_points, num_dims, g, j) ==
    RMul(Six, RSub(RSub(PointAt(points, len, 0 + j, g),
                        PointAt(points, len, (num_points - 1) * num_dims + j, g)),
                   RSub(PointAt(points, len, (num_points - 1) * num_dims + j, g),
                        PointAt(points, len, (num_points - 2) * num_dims + j, g))))

\* mutant of InnerD: the factor 6 is missing
InnerDUnscaled(points, len, num_dims, g, i, j) ==
    RSub(RSub(PointAt(points, len, (i + 1) * num_dims + j, g),
              PointAt(points, len, i * num_dims + j, g)),
         RSub(PointAt(points, len, i * num_dims + j, g),
              PointAt(points, len, (i - 1) * num_dims + j, g)))

\* the inner node branch
InnerD(points, len, num_dims, g, i, j) ==
    RMul(Six, RSub(RSub(PointAt(points, len, (i + 1) * num_dims + j, g),
                        PointAt(points, len, i * num_dims + j, g)),
                   RSub(PointAt(points, len, i * num_dims + j, g),
                        PointAt(points, len, (i - 1) * num_dims + j, g))))

\* mutant of LeftRow: the Natural row keeps the super-diagonal 1
LeftRowNaturalCoupled(points, len, num_points, num_dims, left_bc, left_tangent, g) ==
    CASE left_bc = Hermite ->
            [a |-> Zero, b |-> R(2), c |-> One,
             d |-> [j \in 0 .. num_dims - 1 |->
                      LeftHermiteD(points, len, num_dims, left_tangent, g, j)]]
      [] left_bc = Periodic ->
            [a |-> One, b |-> R(4), c |-> One,
             d |-> [j \in 0 .. num_dims - 1 |->
                      LeftPeriodicD(points, len, num_points, num_dims, g, j)]]
      [] OTHER ->
            [a |-> Zero, b |-> One, c |-> One,
             d |-> [j \in 0 .. num_dims - 1 |-> Zero]]

\* one iteration of the row loop: <<a[i], b[i], c[i], d[i][.]>>
LeftRow(points, len, num_points, num_dims, left_bc, left_tangent, g) ==
    CASE left_bc = Hermite ->
            [a |-> Zero, b |-> R(2), c |-> One,
             d |-> [j \in 0 .. num_dims - 1 |->
                      LeftHermiteD(points, len, num_dims, left_tangent, g, j)]]
      [] left_bc = Periodic ->
            [a |-> One, b |-> R(4), c |-> One,
             d |-> [j \in 0 .. num_dims - 1 |->
                      LeftPeriodicD(points, len, num_points, num_dims, g, j)]]
      [] OTHER ->   \* default: BoundaryCondition::Natural
            [a |-> Zero, b |-> One, c |-> Zero,
             d |-> [j \in 0 .. num_dims - 1 |-> Zero]]

RightRow(points, len, num_points, num_dims, right_bc, right_tangent, g) ==
    CASE right_bc = Hermite ->
            [a |-> One, b |-> R(2), c |-> Zero,
             d |-> [j \in 0 .. num_dims - 1 |->
                      RightHermiteD(points, len, num_points, num_dims, right_tangent, g, j)]]
      [] right_bc = Periodic ->
            [a |-> One, b |-> R(4), c |-> One,
             d |-> [j \in 0 .. num_dims - 1 |->
                      RightPeriodicD(points, len, num_points, num_dims, g, j)]]
      [] OTHER ->   \* default: BoundaryCondition::Natural
            [a |-> Zero, b |-> One, c |-> Zero,
             d |-> [j \in 0 .. num_dims - 1 |-> Zero]]

\* mutant of InnerRow: the diagonal entry is 1, not 4
InnerRowWeakDiagonal(points, len, num_dims, g, i) ==
    [a |-> One, b |-> One, c |-> One,
     d |-> [j \in 0 .. num_dims - 1 |-> InnerD(points, len, num_dims, g, i, j)]]

\* the inner node branch: the row 1, 4, 1
InnerRow(points, len, num_dims, g, i) ==
    [a |-> One, b |-> R(4), c |-> One,
     d |-> [j \in 0 .. num_dims - 1 |-> InnerD(points, len, num_dims, g, i, j)]]

BuildRow(points, len, num_points, num_dims, left_bc, right_bc, left_tangent, right_tangent, g, i) ==
    IF i = 0
    THEN LeftRow(points, len, num_points, num_dims, left_bc, left_tangent, g)
    ELSE IF i = num_points - 1
    THEN RightRow(points, len, num_points, num_dims, right_bc, right_tangent, g)
    ELSE InnerRow(points, len, num_dims, g, i)

\* the whole loop: a, b, c over 0 .. num_points-1 and d over 0 .. num_points*num_dims-1
BuildSystem(points, len, num_points, num_dims, left_bc, right_bc, left_tangent, right_tangent, g) ==
    LET row == [i \in 0 .. num_points - 1 |->
                  BuildRow(points, len, num_points, num_dims, left_bc, right_bc,
                           left_tangent, right_tangent, g, i)]
    IN  [a |-> [i \in 0 .. num_points - 1 |-> row[i].a],
         b |-> [i \in 0 .. num_points - 1 |-> row[i].b],
         c |-> [i \in 0 .. num_points - 1 |-> row[i].c],
         d |-> [k \in 0 .. num_points * num_dims - 1 |->
                  row[k \div num_dims].d[k % num_dims]]]

(***************************************************************************)
(* Spline::tdma on the buffers st = [a, b, c, d, q], for num_points >= 1.  *)
(* q is the auxiliary vector of the perturbed problem (a function over     *)
(* 0 .. num_points-1), or NullQ when the caller passes no q.               *)
(***************************************************************************)
NullQ == <<>>

\* mutant of IsPerturbed: only the left corner is looked at
IsPerturbedLeftOnly(a, c, num_points) == a[0] # Zero

\* bool is_perturbed = a[0] != 0 || c[num_points-1] != 0
IsPerturbed(a, c, num_points) == a[0] # Zero \/ c[num_points - 1] # Zero

\* T vn = 0.0; if(is_perturbed) vn = a[0]/b[0]
Vn(st, num_points) ==
    IF IsPerturbed(st.a, st.c, num_points) THEN RDiv(st.a[0], st.b[0]) ELSE Zero

\* the block "Modify problem": the statements in source order
ModifyProblem(st, num_points) ==
    LET n1 == num_points - 1
        vn == RDiv(st.a[0], st.b[0])
        q0 == [i \in 0 .. n1 |-> IF i >= 1 THEN Zero ELSE st.q[i]]
        q1 == [q0 EXCEPT ![0] = RNeg(st.b[0])]
        q2 == [q1 EXCEPT ![n1] = st.c[n1]]
        a1 == [st.a EXCEPT ![0] = Zero]
        b1 == [st.b EXCEPT ![0] = RMul(R(2), st.b[0])]
        b2 == [b1 EXCEPT ![n1] = RAdd(b1[n1], RMul(st.c[n1], vn))]
        c1 == [st.c EXCEPT ![n1] = Zero]
    IN  [a |-> a1, b |-> b2, c |-> c1, d |-> st.d, q |-> q2]

\* mutant of ForwardStep: the pivot update uses c[i] in place of c[i-1]
ForwardStepWrongC(st, num_dims, is_perturbed, i) ==
    LET f == RDiv(st.a[i], st.b[i - 1])
    IN  [st EXCEPT
           !.b[i] = RSub(st.b[i], RMul(f, st.c[i])),
           !.q = IF is_perturbed
                 THEN [st.q EXCEPT ![i] = RSub(st.q[i], RMul(f, st.q[i - 1]))]
                 ELSE st.q,
           !.d = [k \in DOMAIN st.d |->
                    IF k \div num_dims = i
                    THEN RSub(st.d[k], RMul(f, st.d[k - num_dims]))
                    ELSE st.d[k]]]

\* one iteration i of the forward elimination loop
ForwardStep(st, num_dims, is_perturbed, i) ==
    LET f == RDiv(st.a[i], st.b[i - 1])
    IN  [st EXCEPT
           !.b[i] = RSub(st.b[i], RMul(f, st.c[i - 1])),
           !.q = IF is_perturbed
                 THEN [st.q EXCEPT ![i] = RSub(st.q[i], RMul(f, st.q[i - 1]))]
                 ELSE st.q,
           !.d = [k \in DOMAIN st.d |->
                    IF k \div num_dims = i
                    THEN RSub(st.d[k], RMul(f, st.d[k - num_dims]))
                    ELSE st.d[k]]]

RECURSIVE ForwardElimination(_, _, _, _, _)
ForwardElimination(st, num_points, num_dims, is_perturbed, i) ==
    IF i < num_points
    THEN ForwardElimination(ForwardStep(st, num_dims, is_perturbed, i),
                            num_points, num_dims, is_perturbed, i + 1)
    ELSE st

\* backward substitution, row n-1
BackwardLast(st, num_points, num_dims, is_perturbed) ==
    LET n1 == num_points - 1
    IN  [st EXCEPT
           !.q = IF is_perturbed
                 THEN [st.q EXCEPT ![n1] = RDiv(st.q[n1], st.b[n1])]
                 ELSE st.q,
           !.d = [k \in DOMAIN st.d |->
                    IF k \div num_dims = n1
                    THEN RDiv(st.d[k], st.b[n1])
                    ELSE st.d[k]]]

\* one iteration i of the backward substitution loop
BackwardStep(st, num_dims, is_perturbed, i) ==
    [st EXCEPT
       !.q = IF is_perturbed
             THEN [st.q EXCEPT ![i] = RDiv(RSub(st.q[i], RMul(st.c[i], st.q[i + 1])),
                                           st.b[i])]
             ELSE st.q,
       !.d = [k \in DOMAIN st.d |->
                IF k \div num_dims = i
                THEN RDiv(RSub(st.d[k], RMul(st.c[i], st.d[k + num_dims])), st.b[i])
                ELSE st.d[k]]]

RECURSIVE BackwardSubstitution(_, _, _, _)
BackwardSubstitution(st, num_dims, is_perturbed, i) ==
    IF i >= 0
    THEN BackwardSubstitution(BackwardStep(st, num_dims, is_perturbed, i),
                              num_dims, is_perturbed, i - 1)
    ELSE st

\* mutant of Reconstruct: vq without the term q[n-1]*vn
ReconstructNoVn(st, num_points, num_dims, vn) ==
    LET n1 == num_points - 1
        vq == st.q[0]
        vy(j) == RSub(st.d[j], RMul(st.d[n1 * num_dims + j], vn))
        k(j) == RDiv(vy(j), RAdd(One, vq))
    IN  [st EXCEPT
           !.d = [x \in DOMAIN st.d |->
                    RSub(st.d[x], RMul(k(x % num_dims), st.q[x \div num_dims]))]]

\* the block "Reconstruct solution"
Reconstruct(st, num_points, num_dims, vn) ==
    LET n1 == num_points - 1
        vq == RSub(st.q[0], RMul(st.q[n1], vn))
        vy(j) == RSub(st.d[j], RMul(st.d[n1 * num_dims + j], vn))
        k(j) == RDiv(vy(j), RAdd(One, vq))
    IN  [st EXCEPT
           !.d = [x \in DOMAIN st.d |->
                    RSub(st.d[x], RMul(k(x % num_dims), st.q[x \div num_dims]))]]

tdma(num_points, num_dims, st) ==
    LET is_perturbed == IsPerturbed(st.a, st.c, num_points)
        vn == Vn(st, num_points)
        s0 == IF is_perturbed THEN ModifyProblem(st, num_points) ELSE st
        s1 == ForwardElimination(s0, num_points, num_dims, is_perturbed, 1)
        s2 == BackwardLast(s1, num_points, num_dims, is_perturbed)
        s3 == BackwardSubstitution(s2, num_dims, is_perturbed, num_points - 2)
    IN  IF is_perturbed THEN Reconstruct(s3, num_points, num_dims, vn) ELSE s3

\* internal::StorageType<T, Dynamic>(size): size zeros
Storage(size) == [i \in 0 .. size - 1 |-> Zero]

\* the tail of compute_moments ("Solve spline problem") on the built system
SolveSystem(sys, num_points, num_dims) ==
    IF IsPerturbed(sys.a, sys.c, num_points)
    THEN tdma(num_points, num_dims,
              [a |-> sys.a, b |-> sys.b, c |-> sys.c, d |-> sys.d,
               q |-> Storage(num_points)])
    ELSE tdma(num_points, num_dims,
              [a |-> sys.a, b |-> sys.b, c |-> sys.c, d |-> sys.d, q |-> NullQ])

\* compute_moments: the moments left in m
compute_moments(points, len, num_points, num_dims, left_bc, right_bc, left_tangent, right_tangent, g) ==
    SolveSystem(BuildSystem(points, len, num_points, num_dims, left_bc, right_bc,
                            left_tangent, right_tangent, g),
                num_points, num_dims).d

(***************************************************************************)
(* Spline::eval(pos, out_point), for num_points >= 1 and pos >= 0.         *)
(* The std::size_t index i is kept as a mathematical integer: i-- on i = 0 *)
(* wraps to SIZE_MAX, which addresses the row before row 0, written -1.    *)
(***************************************************************************)
\* mutant of EvalIndex: the branch i == num_points_ - 1 is missing
EvalIndexUnclamped(pos, num_points) ==
    LET x == RMul(pos, R(num_points - 1))
    IN  [i |-> RFloor(x), t |-> RFmod1(x)]

EvalIndex(pos, num_points) ==
    LET x == RMul(pos, R(num_points - 1))
        i == RFloor(x)
        t == RFmod1(x)
    IN  IF i = num_points - 1 THEN [i |-> i - 1, t |-> One] ELSE [i |-> i, t |-> t]

\* pow(t, 3.0)
Pow3(t) == RMul(t, RMul(t, t))

\* mutant of EvalFormula: the weights t0 and t1 are exchanged
EvalFormulaSwapped(t, p0, p1, m0, m1) ==
    LET t0 == Pow3(t)
        t1 == Pow3(RSub(One, t))
        c == RSub(RSub(p1, p0), RMul(Sixth, RSub(m1, m0)))
        d == RSub(p0, RMul(Sixth, m0))
    IN  RAdd(RAdd(RMul(Sixth, RAdd(RMul(t0, m0), RMul(t1, m1))), RMul(c, t)), d)

\* one iteration j of the output loop; p0, p1, m0, m1 are the values read
\* from points_ and moments_ at rows i and i+1
EvalFormula(t, p0, p1, m0, m1) ==
    LET t0 == Pow3(t)
        t1 == Pow3(RSub(One, t))
        c == RSub(RSub(p1, p0), RMul(Sixth, RSub(m1, m0)))
        d == RSub(p0, RMul(Sixth, m0))
    IN  RAdd(RAdd(RMul(Sixth, RAdd(RMul(t1, m0), RMul(t0, m1))), RMul(c, t)), d)

\* the out_point written by eval; g stands for a value read outside a buffer
EvalPoint(pos, num_points, num_dims, points, moments, g) ==
    LET it == EvalIndex(pos, num_points)
        len == num_points * num_dims
        t == it.t
    IN  [j \in 0 .. num_dims - 1 |->
           EvalFormula(t,
                       PointAt(points, len, it.i * num_dims + j, g),
                       PointAt(points, len, (it.i + 1) * num_dims + j, g),
                       PointAt(moments, len, it.i * num_dims + j, g),
                       PointAt(moments, len, (it.i + 1) * num_dims + j, g))]

\* the rows of points_ and moments_ that eval reads
EvalRows(pos, num_points) ==
    LET it == EvalIndex(pos, num_points) IN {it.i, it.i + 1}

(***************************************************************************)
(* State: the Spline object, the TestProblem the caller holds, and what    *)
(* the last set built and the last eval read and wrote.                    *)
(***************************************************************************)
VARIABLES
    num_points_,   \* Spline::num_points_
    num_dims_,     \* Spline::num_dims_
    points_,       \* the buffer Spline::points_ points to
    moments_,      \* Spline::moments_
    pc,            \* "constructed", "configured", "evaluated" or "crashed"
    problem,       \* the TestProblem of the caller
    built,         \* a, b, c, d as compute_moments built them, before tdma
    ev,            \* the last eval: positions, rows read, output
    NumPoints,     \* template parameter NumPoints of the instance
    NumDims,       \* template parameter NumDims of the instance
    run,           \* the set call in flight: where it is, and its a, b, c, q
    locking        \* the callers take a read-write lock around set and eval

vars == <<num_points_, num_dims_, points_, moments_, pc, problem, built, ev,
          NumPoints, NumDims, run, locking>>

\* static const std::size_t Dynamic = 0
Dynamic == 0

\* no set call is in flight; before is the num_points_ that the last set call
\* entered step by step found on entry (0 on a new object)
NotRunning ==
    [at |-> "idle", i |-> 0, a |-> <<>>, b |-> <<>>, c |-> <<>>, q |-> NullQ,
     is_perturbed |-> FALSE, vn |-> Zero, before |-> 0]

\* what a call that runs from entry to return in one step leaves alone
aux == <<NumPoints, NumDims, run, locking>>

NoSystem == [a |-> <<>>, b |-> <<>>, c |-> <<>>, d |-> <<>>]
NoEval == [kind |-> "none", pos |-> <<>>, rows |-> {}, out |-> <<>>]

\* values an out-of-bounds read may produce
Indeterminate(oob) == IF oob THEN {Zero, One} ELSE {Zero}

\* set reads outside its buffers: a[0] of an empty a, or row 1 of one point
SetReadsOutOfBounds(p) ==
    \/ p.num_points_ = 0
    \/ p.num_points_ = 1 /\ p.left_bc_ \in {Hermite, Periodic}

\* Spline::set(points, num_points, num_dims, left_bc, right_bc, left_tangent,
\* right_tangent) with the fields of p as arguments
Set(p) ==
    /\ pc # "crashed"
    /\ num_points_' = p.num_points_
    /\ num_dims_' = p.num_dims_
    /\ points_' = p.points_
    /\ ev' = NoEval
    /\ \/ \E g \in Indeterminate(SetReadsOutOfBounds(p)) :
            LET len == p.num_points_ * p.num_dims_
                sys == BuildSystem(p.points_, len, p.num_points_, p.num_dims_,
                                   p.left_bc_, p.right_bc_,
                                   p.left_tangent_, p.right_tangent_, g)
            IN  /\ built' = sys
                /\ moments_' = IF p.num_points_ = 0 THEN Storage(0)
                                ELSE SolveSystem(sys, p.num_points_, p.num_dims_).d
                /\ pc' = "configured"
       \/ /\ SetReadsOutOfBounds(p)
          /\ built' = NoSystem
          /\ moments_' = Storage(p.num_points_ * p.num_dims_)
          /\ pc' = "crashed"

\* the index computation of eval is defined
EvalIndexDefined(pos, num_points) == num_points >= 1 /\ RLe(Zero, pos)

\* eval reads a row outside the buffers
EvalReadsOutOfBounds(pos, num_points) ==
    \/ ~EvalIndexDefined(pos, num_points)
    \/ ~(EvalRows(pos, num_points) \subseteq 0 .. num_points - 1)

\* what one call eval(pos, out_point) reads and writes
EvalOnce(pos, g) ==
    IF EvalIndexDefined(pos, num_points_)
    THEN [rows |-> EvalRows(pos, num_points_),
          out |-> EvalPoint(pos, num_points_, num_dims_, points_, moments_, g)]
    ELSE [rows |-> {-1}, out |-> [j \in 0 .. num_dims_ - 1 |-> g]]

\* Spline::eval(pos, out_point)
Eval(pos) ==
    /\ pc \in {"configured", "evaluated"}
    /\ UNCHANGED <<num_points_, num_dims_, points_, moments_, problem, built>>
    /\ \/ \E g \in Indeterminate(EvalReadsOutOfBounds(pos, num_points_)) :
            LET e == EvalOnce(pos, g)
            IN  /\ ev' = [kind |-> "single", pos |-> [k \in {0} |-> pos],
                          rows |-> e.rows, out |-> e.out]
                /\ pc' = "evaluated"
       \/ /\ EvalReadsOutOfBounds(pos, num_points_)
          /\ ev' = [kind |-> "single", pos |-> [k \in {0} |-> pos],
                    rows |-> {}, out |-> <<>>]
          /\ pc' = "crashed"

\* mutant of EvalMany: call i writes out_points[i], out_points[i + num_pos], ..
EvalManyColumnMajor(pos) ==
    LET num_pos == Cardinality(DOMAIN pos)
        oob == \E i \in DOMAIN pos : EvalReadsOutOfBounds(pos[i], num_points_)
    IN  /\ pc \in {"configured", "evaluated"}
        /\ UNCHANGED <<num_points_, num_dims_, points_, moments_, problem, built>>
        /\ \/ \E g \in Indeterminate(oob) :
                LET e == [i \in DOMAIN pos |-> EvalOnce(pos[i], g)]
                IN  /\ ev' = [kind |-> "many", pos |-> pos,
                              rows |-> UNION {e[i].rows : i \in DOMAIN pos},
                              out |-> [x \in 0 .. num_pos * num_dims_ - 1 |->
                                         e[x % num_pos].out[x \div num_pos]]]
                    /\ pc' = "evaluated"
           \/ /\ oob
              /\ ev' = [kind |-> "many", pos |-> pos, rows |-> {}, out |-> <<>>]
              /\ pc' = "crashed"

\* Spline::eval(pos, num_pos, out_points): pos is a function over 0 .. num_pos-1;
\* call i writes out_points[i*num_dims_ ..]
EvalMany(pos) ==
    LET num_pos == Cardinality(DOMAIN pos)
        oob == \E i \in DOMAIN pos : EvalReadsOutOfBounds(pos[i], num_points_)
    IN  /\ pc \in {"configured", "evaluated"}
        /\ UNCHANGED <<num_points_, num_dims_, points_, moments_, problem, built>>
        /\ \/ \E g \in Indeterminate(oob) :
                LET e == [i \in DOMAIN pos |-> EvalOnce(pos[i], g)]
                IN  /\ ev' = [kind |-> "many", pos |-> pos,
                              rows |-> UNION {e[i].rows : i \in DOMAIN pos},
                              out |-> [x \in 0 .. num_pos * num_dims_ - 1 |->
                                         e[x \div num_dims_].out[x % num_dims_]]]
                    /\ pc' = "evaluated"
           \/ /\ oob
              /\ ev' = [kind |-> "many", pos |-> pos, rows |-> {}, out |-> <<>>]
              /\ pc' = "crashed"

\* Spline::Spline(): the scalar fields are not initialised (any read of them
\* before set is a read of an indeterminate value); moments_ is empty
Constructed ==
    /\ num_points_ = 0
    /\ num_dims_ = 0
    /\ points_ = <<>>
    /\ moments_ = Storage(0)
    /\ pc = "constructed"
    /\ built = NoSystem
    /\ ev = NoEval

(***************************************************************************)
(* The second implementation file in the header (the copy after the first  *)
(* "} // namespace: parametric_cubic_spline"): its compute_moments reads   *)
(* the tangents without a null check, differs in the right Hermite row,    *)
(* and its tdma has no perturbed path and walks the backward loop from     *)
(* i = num_points, reading the row after the last one.  The Periodic,      *)
(* Natural and inner rows and eval are the same text as in the first copy. *)
(***************************************************************************)
\* left_tangent[j] / right_tangent[j]: a null pointer is read like any other
LegacyTangentAt(tangent, j, g) == IF tangent.null THEN g ELSE tangent.v[j]

LegacyLeftHermiteD(points, len, num_dims, left_tangent, g, j) ==
    RMul(Six, RSub(RSub(PointAt(points, len, num_dims + j, g),
                        PointAt(points, len, j, g)),
                   LegacyTangentAt(left_tangent, j, g)))

LegacyRightHermiteD(points, len, num_points, num_dims, right_tangent, g, j) ==
    LET i == num_points - 1
    IN  RMul(Six, RSub(LegacyTangentAt(right_tangent, j, g),
                       RSub(PointAt(points, len, i * num_dims + j, g),
                            PointAt(points, len, (num_points - 1) * num_dims + j, g))))

LegacyLeftRow(points, len, num_points, num_dims, left_bc, left_tangent, g) ==
    IF left_bc = Hermite
    THEN [a |-> Zero, b |-> R(2), c |-> One,
          d |-> [j \in 0 .. num_dims - 1 |->
                   LegacyLeftHermiteD(points, len, num_dims, left_tangent, g, j)]]
    ELSE LeftRow(points, len, num_points, num_dims, left_bc, left_tangent, g)

LegacyRightRow(points, len, num_points, num_dims, right_bc, right_tangent, g) ==
    IF right_bc = Hermite
    THEN [a |-> One, b |-> R(2), c |-> Zero,
          d |-> [j \in 0 .. num_dims - 1 |->
                   LegacyRightHermiteD(points, len, num_points, num_dims,
                                       right_tangent, g, j)]]
    ELSE RightRow(points, len, num_points, num_dims, right_bc, right_tangent, g)

LegacyBuildSystem(points, len, num_points, num_dims, left_bc, right_bc, left_tangent, right_tangent, g) ==
    LET row == [i \in 0 .. num_points - 1 |->
                  IF i = 0
                  THEN LegacyLeftRow(points, len, num_points, num_dims,
                                     left_bc, left_tangent, g)
                  ELSE IF i = num_points - 1
                  THEN LegacyRightRow(points, len, num_points, num_dims,
                                      right_bc, right_tangent, g)
                  ELSE InnerRow(points, len, num_dims, g, i)]
    IN  [a |-> [i \in 0 .. num_points - 1 |-> row[i].a],
         b |-> [i \in 0 .. num_points - 1 |-> row[i].b],
         c |-> [i \in 0 .. num_points - 1 |-> row[i].c],
         d |-> [k \in 0 .. num_points * num_dims - 1 |->
                  row[k \div num_dims].d[k % num_dims]]]

\* one iteration i (from num_points down to 1) of the backward loop: row i-1
\* from row i, where row num_points lies after the end of d
LegacyBackwardStep(st, num_dims, i, g) ==
    [st EXCEPT
       !.d = [k \in DOMAIN st.d |->
                IF k \div num_dims = i - 1
                THEN RDiv(RSub(st.d[k],
                               RMul(st.c[i - 1],
                                    IF k + num_dims \in DOMAIN st.d
                                    THEN st.d[k + num_dims] ELSE g)),
                          st.b[i - 1])
                ELSE st.d[k]]]

RECURSIVE LegacyBackwardSubstitution(_, _, _, _)
LegacyBackwardSubstitution(st, num_dims, i, g) ==
    IF i > 0
    THEN LegacyBackwardSubstitution(LegacyBackwardStep(st, num_dims, i, g),
                                    num_dims, i - 1, g)
    ELSE st

LegacyTdma(num_points, num_dims, st, g) ==
    LET s1 == ForwardElimination(st, num_points, num_dims, FALSE, 1)
        s2 == BackwardLast(s1, num_points, num_dims, FALSE)
    IN  LegacyBackwardSubstitution(s2, num_dims, num_points, g)

\* set of the second copy
LegacySet(p) ==
    /\ pc # "crashed"
    /\ num_points_' = p.num_points_
    /\ num_dims_' = p.num_dims_
    /\ points_' = p.points_
    /\ ev' = NoEval
    /\ \/ \E g \in Indeterminate(TRUE) :
            LET len == p.num_points_ * p.num_dims_
                sys == LegacyBuildSystem(p.points_, len, p.num_points_, p.num_dims_,
                                         p.left_bc_, p.right_bc_,
                                         p.left_tangent_, p.right_tangent_, g)
            IN  /\ built' = sys
                /\ moments_' =
                      IF p.num_points_ = 0 THEN Storage(0)
                      ELSE LegacyTdma(p.num_points_, p.num_dims_,
                                      [a |-> sys.a, b |-> sys.b, c |-> sys.c,
                                       d |-> sys.d, q |-> NullQ], g).d
                /\ pc' = "configured"
       \/ /\ built' = NoSystem
          /\ moments_' = Storage(p.num_points_ * p.num_dims_)
          /\ pc' = "crashed"

(***************************************************************************)
(* The caller: a TestProblem of the test file, i.e. the arguments of set,  *)
(* the positions to evaluate and the expected values.  Beside the two      *)
(* problems of the test file there are generated ones: the first           *)
(* coordinate column runs over all sequences over Coords, odd columns are  *)
(* the negated reversal of it (so the columns differ), and the positions   *)
(* are those of the pivot points.                                          *)
(***************************************************************************)
Coords == {0, 1}

PointBuffer(s, num_points, num_dims) ==
    [k \in 0 .. num_points * num_dims - 1 |->
       LET i == k \div num_dims
           j == k % num_dims
       IN  IF j % 2 = 0 THEN R(s[i]) ELSE R(-s[num_points - 1 - i])]

ZeroTangent(num_dims) == Tangent([j \in 0 .. num_dims - 1 |-> Zero])
\* (0,-1,0,-1,..) and (-1,0,-1,0,..), cut to num_dims
LeftTangent(num_dims) ==
    Tangent([j \in 0 .. num_dims - 1 |-> IF j % 2 = 0 THEN Zero ELSE R(-1)])
RightTangent(num_dims) ==
    Tangent([j \in 0 .. num_dims - 1 |-> IF j % 2 = 0 THEN R(-1) ELSE Zero])

LeftTangents(num_dims) == {NullTangent, ZeroTangent(num_dims), LeftTangent(num_dims)}
RightTangents(num_dims) == {NullTangent, ZeroTangent(num_dims), RightTangent(num_dims)}

\* the positions of the pivot points, i/(n-1)
KnotPositions(num_points) ==
    IF num_points >= 2
    THEN [k \in 0 .. num_points - 1 |-> Q(k, num_points - 1)]
    ELSE [k \in 0 .. 1 |-> R(k)]

GeneratedProblem(s, n, m, lbc, rbc, lt, rt) ==
    [points_ |-> PointBuffer(s, n, m), num_points_ |-> n, num_dims_ |-> m,
     left_bc_ |-> lbc, right_bc_ |-> rbc,
     left_tangent_ |-> lt, right_tangent_ |-> rt,
     eval_pos_ |-> KnotPositions(n), expected_points_ |-> <<>>]

\* a sequence <<x1, .., xk>> as a buffer over 0 .. k-1
Buffer(seq) == [k \in 0 .. Len(seq) - 1 |-> seq[k + 1]]
\* the literals of the test file, n/10000
Dec4(seq) == [k \in 0 .. Len(seq) - 1 |-> Q(seq[k + 1], 10000)]

PIVOT_POINTS == Buffer(<<R(1), R(0), R(-1), R(0), R(0), R(1), R(0), R(-1)>>)
EVAL_POINTS == [k \in 0 .. 10 |-> Q(k, 10)]

test_problem1 ==
    [points_ |-> PIVOT_POINTS, num_points_ |-> 4, num_dims_ |-> 2,
     left_bc_ |-> Natural, right_bc_ |-> Natural,
     left_tangent_ |-> Tangent(Buffer(<<R(0), R(0)>>)),
     right_tangent_ |-> Tangent(Buffer(<<R(0), R(0)>>)),
     eval_pos_ |-> EVAL_POINTS,
     expected_points_ |->
        Dec4(<<10000, 0, 1634, -1274, -5328, -1792,
               -9482, -798, -9600, 2320, -6500, 6500,
               -2320, 9600, 798, 9482, 1792, 5328,
               1274, -1634, 0, -10000>>)]

test_problem2 ==
    [points_ |-> PIVOT_POINTS, num_points_ |-> 4, num_dims_ |-> 2,
     left_bc_ |-> Hermite, right_bc_ |-> Hermite,
     left_tangent_ |-> Tangent(Buffer(<<R(0), R(-1)>>)),
     right_tangent_ |-> Tangent(Buffer(<<R(-1), R(0)>>)),
     eval_pos_ |-> EVAL_POINTS,
     expected_points_ |->
        Dec4(<<10000, 0, 6352, -2268, -1424, -2784,
               -8576, -1116, -10731, 3003, -7917, 7917,
               -3003, 10731, 1116, 8576, 2784, 1424,
               2268, -6352, 0, -10000>>)]

(***************************************************************************)
(* The body of TEST_P on a problem: construct, set, then one eval call, at *)
(* one of the problem's positions or at all of them.                       *)
(***************************************************************************)
\* Spline<float, Dynamic, Dynamic> spline, used by one thread
TestInstance ==
    /\ NumPoints = Dynamic /\ NumDims = Dynamic
    /\ run = NotRunning
    /\ locking = FALSE

Init ==
    /\ Constructed
    /\ TestInstance
    /\ \/ problem \in {test_problem1, test_problem2}
       \/ \E n \in 0 .. MaxPoints, m \in 1 .. MaxDims :
          \E s \in [0 .. n - 1 -> Coords] :
          \E lbc \in BoundaryCondition, rbc \in BoundaryCondition :
          \E lt \in LeftTangents(m), rt \in RightTangents(m) :
             problem = GeneratedProblem(s, n, m, lbc, rbc, lt, rt)

TestSet ==
    pc = "constructed" /\ problem' = problem /\ Set(problem) /\ UNCHANGED aux

TestEval ==
    /\ pc = "configured"
    /\ \E k \in DOMAIN problem.eval_pos_ : Eval(problem.eval_pos_[k])
    /\ UNCHANGED aux

TestEvalMany ==
    pc = "configured" /\ EvalMany(problem.eval_pos_) /\ UNCHANGED aux

Next == TestSet \/ TestEval \/ TestEvalMany

Spec == Init /\ [][Next]_vars

\* the same test body on the second copy
LegacyTestSet ==
    pc = "constructed" /\ problem' = problem /\ LegacySet(problem) /\ UNCHANGED aux

NextLegacy == LegacyTestSet \/ TestEval \/ TestEvalMany

SpecLegacy == Init /\ [][NextLegacy]_vars

(***************************************************************************)
(* Properties.                                                             *)
(***************************************************************************)
\* set has returned normally
Configured == pc \in {"configured", "evaluated"}

\* moment and point of row i, dimension j
Moment(i, j) == moments_[i * num_dims_ + j]
Point(i, j) == points_[i * num_dims_ + j]

Rows == 0 .. num_points_ - 1
Dims == 0 .. num_dims_ - 1

\* row i of the tridiagonal system built by the builder, applied to the
\* moments: the terms with index -1 or n are absent
TridiagonalRow(i, j) ==
    RAdd(RAdd(IF i > 0 THEN RMul(built.a[i], Moment(i - 1, j)) ELSE Zero,
              RMul(built.b[i], Moment(i, j))),
         IF i < num_points_ - 1 THEN RMul(built.c[i], Moment(i + 1, j)) ELSE Zero)

\* row i of the corner-coupled system: a[0] multiplies x[n-1], c[n-1] multiplies x[0]
CornerCoupledRow(i, j) ==
    RAdd(RAdd(RMul(built.a[i], Moment((i + num_points_ - 1) % num_points_, j)),
              RMul(built.b[i], Moment(i, j))),
         RMul(built.c[i], Moment((i + 1) % num_points_, j)))

StrictPair ==
    problem.left_bc_ \in {Natural, Hermite} /\ problem.right_bc_ \in {Natural, Hermite}
PerturbedPair ==
    problem.left_bc_ = Periodic \/ problem.right_bc_ = Periodic

\* C1: in the strict regime (both ends Natural or Hermite, n >= 2) the moments
\* left by set satisfy every row of the tridiagonal system the builder built,
\* in every column.
C1_StrictRegimeSolves ==
    (Configured /\ num_points_ >= 2 /\ StrictPair) =>
        /\ built.a[0] = Zero /\ built.c[num_points_ - 1] = Zero
        /\ \A i \in Rows : \A j \in Dims :
              TridiagonalRow(i, j) = built.d[i * num_dims_ + j]

C1_Witness ==
    /\ Configured /\ num_points_ >= 3 /\ num_dims_ >= 2
    /\ problem.left_bc_ = Hermite /\ problem.right_bc_ = Natural
    /\ \E i \in Rows : \E j \in Dims : ~(Moment(i, j) = Zero)
    /\ \E j \in Dims : ~(Moment(0, j) = Moment(0, 0))

\* C2: with at least one Periodic end (n >= 2) the moments left by set solve
\* the corner-coupled system of the rows the builder built, in every column.
C2_PerturbedRegimeSolves ==
    (Configured /\ num_points_ >= 2 /\ PerturbedPair) =>
        \A i \in Rows : \A j \in Dims :
            CornerCoupledRow(i, j) = built.d[i * num_dims_ + j]

C2_Witness ==
    /\ Configured /\ num_points_ >= 3 /\ num_dims_ >= 2
    /\ problem.left_bc_ = Periodic /\ problem.right_bc_ = Periodic
    /\ \E i \in Rows : \E j \in Dims : ~(Moment(i, j) = Zero)
    /\ ~(Moment(0, 0) = Moment(num_points_ - 1, 0))

\* the position of pivot point i
KnotPosition(i) == Q(i, num_points_ - 1)

\* C3: after set with n >= 2 points, eval at the position i/(n-1) of pivot
\* point i returns exactly that point, in every dimension and for every
\* boundary pair, and it returns the same whatever the moments are.
C3_Interpolation ==
    (pc = "evaluated" /\ ev.kind = "single" /\ num_points_ >= 2
        /\ problem.left_bc_ \in {Natural, Hermite, Periodic}
        /\ problem.right_bc_ \in {Natural, Hermite, Periodic}) =>
        \A i \in Rows :
            ev.pos[0] = KnotPosition(i) =>
                /\ \A j \in Dims : ev.out[j] = Point(i, j)
                /\ ev.out = EvalPoint(ev.pos[0], num_points_, num_dims_, points_,
                                      Storage(num_points_ * num_dims_), Zero)

C3_Witness ==
    /\ pc = "evaluated" /\ ev.kind = "single" /\ num_points_ >= 3
    /\ problem.left_bc_ = Periodic /\ problem.right_bc_ = Hermite
    /\ ev.pos[0] = One
    /\ ev.rows = {num_points_ - 2, num_points_ - 1}
    /\ ~(Moment(num_points_ - 1, 0) = Zero)
    /\ ev.out[0] = Point(num_points_ - 1, 0)

\* C4: after set with n >= 2, a Natural left end leaves the moment of point 0
\* at exactly 0 in every dimension, and a Natural right end that of point
\* n-1, whatever the boundary condition at the other end is.
C4_NaturalMomentsZero ==
    (Configured /\ num_points_ >= 2) =>
        /\ problem.left_bc_ = Natural => \A j \in Dims : Moment(0, j) = Zero
        /\ problem.right_bc_ = Natural =>
                \A j \in Dims : Moment(num_points_ - 1, j) = Zero

C4_Witness ==
    /\ Configured /\ num_points_ >= 3
    /\ problem.left_bc_ = Natural /\ problem.right_bc_ = Periodic
    /\ \A j \in Dims : Moment(0, j) = Zero
    /\ ~(Moment(1, 0) = Zero)

\* the derivative of the evaluation formula of segment i with respect to t:
\* the formula is a cubic in t, for which the five-point difference quotient
\* (f(t-2) - 8 f(t-1) + 8 f(t+1) - f(t+2)) / 12 is exact
SegmentValue(i, j, t) ==
    EvalFormula(t, Point(i, j), Point(i + 1, j), Moment(i, j), Moment(i + 1, j))

SegmentDerivative(i, j, t) ==
    RDiv(RAdd(RSub(SegmentValue(i, j, RSub(t, R(2))),
                   RMul(R(8), SegmentValue(i, j, RSub(t, One)))),
              RSub(RMul(R(8), SegmentValue(i, j, RAdd(t, One))),
                   SegmentValue(i, j, RAdd(t, R(2))))),
         R(12))

\* C5: after set with n >= 2 and an explicit tangent at a Hermite end, the
\* derivative of the evaluation formula with respect to the segment-local
\* parameter equals that tangent at the boundary point: segment 0 at t = 0
\* for the left end, segment n-2 at t = 1 for the right end.
C5_HermiteTangent ==
    (Configured /\ num_points_ >= 2) =>
        /\ (problem.left_bc_ = Hermite /\ ~problem.left_tangent_.null) =>
                \A j \in Dims :
                    SegmentDerivative(0, j, Zero) = problem.left_tangent_.v[j]
        /\ (problem.right_bc_ = Hermite /\ ~problem.right_tangent_.null) =>
                \A j \in Dims :
                    SegmentDerivative(num_points_ - 2, j, One) = problem.right_tangent_.v[j]

C5_Witness ==
    /\ Configured /\ num_points_ >= 3 /\ num_dims_ >= 2
    /\ problem.left_bc_ = Periodic /\ problem.right_bc_ = Hermite
    /\ ~problem.right_tangent_.null
    /\ ~(problem.right_tangent_.v[0] = Zero)
    /\ ~(Point(num_points_ - 1, 0) = Point(num_points_ - 2, 0))
    /\ SegmentDerivative(num_points_ - 2, 0, One) = problem.right_tangent_.v[0]

PeriodicPair == problem.left_bc_ = Periodic /\ problem.right_bc_ = Periodic

\* row k of the output of the batched eval
OutRow(k, j) == ev.out[k * num_dims_ + j]
LastPos == Cardinality(DOMAIN ev.pos) - 1

\* the cubic of the evaluation formula on the closing segment, from point n-1
\* back to point 0, and its derivative (exact five-point quotient)
ClosingValue(j, t) ==
    EvalFormula(t, Point(num_points_ - 1, j), Point(0, j),
                Moment(num_points_ - 1, j), Moment(0, j))

ClosingDerivative(j, t) ==
    RDiv(RAdd(RSub(ClosingValue(j, RSub(t, R(2))),
                   RMul(R(8), ClosingValue(j, RSub(t, One)))),
              RSub(RMul(R(8), ClosingValue(j, RAdd(t, One))),
                   ClosingValue(j, RAdd(t, R(2))))),
         R(12))

\* the batched eval at the positions of the pivot points, 0 first and 1 last
EvaluatedAtKnots ==
    /\ pc = "evaluated" /\ ev.kind = "many" /\ num_points_ >= 2
    /\ ev.pos[0] = Zero /\ ev.pos[LastPos] = One

\* C6 as claimed: with Periodic at both ends, the value of eval at position 0
\* equals the value at position 1, and so does the first derivative, for every
\* point set.
C6_PeriodicConsistency ==
    (EvaluatedAtKnots /\ PeriodicPair) =>
        \A j \in Dims :
            /\ OutRow(0, j) = OutRow(LastPos, j)
            /\ SegmentDerivative(0, j, Zero) = SegmentDerivative(num_points_ - 2, j, One)

\* C6 amended: with Periodic at both ends, eval at position 0 returns point 0
\* and eval at position 1 returns point n-1, and the moments close the curve
\* with first-derivative continuity: the cubic of the evaluation formula on the
\* closing segment from point n-1 back to point 0 has, at its end, the value
\* and first derivative of the spline at position 0 and, at its start, those
\* of the spline at position 1.
C6_PeriodicClosedCurve ==
    (EvaluatedAtKnots /\ PeriodicPair) =>
        \A j \in Dims :
            /\ OutRow(0, j) = Point(0, j)
            /\ OutRow(LastPos, j) = Point(num_points_ - 1, j)
            /\ ClosingValue(j, One) = OutRow(0, j)
            /\ ClosingValue(j, Zero) = OutRow(LastPos, j)
            /\ ClosingDerivative(j, One) = SegmentDerivative(0, j, Zero)
            /\ ClosingDerivative(j, Zero) = SegmentDerivative(num_points_ - 2, j, One)

C6_Witness ==
    /\ EvaluatedAtKnots /\ PeriodicPair /\ num_points_ >= 3
    /\ ~(Point(0, 0) = Point(num_points_ - 1, 0))
    /\ ~(OutRow(0, 0) = OutRow(LastPos, 0))
    /\ ~(SegmentDerivative(0, 0, Zero) = SegmentDerivative(num_points_ - 2, 0, One))
    /\ ClosingDerivative(0, One) = SegmentDerivative(0, 0, Zero)

\* the tolerance of the test, 0.001
Tolerance == Q(1, 1000)
Near(x, y) == RLt(RAbs(RSub(x, y)), Tolerance)

ReferenceProblem == problem \in {test_problem1, test_problem2}

\* C7: for the two problems of the test file, set followed by eval at the 11
\* positions 0.0, 0.1, .., 1.0 (all at once as the test does, or one at a
\* time) yields outputs that differ by less than 0.001 from the expected
\* table; position 0.0 gives (1,0) and position 1.0 gives (0,-1).
C7_ReferenceTables ==
    (pc = "evaluated" /\ ReferenceProblem) =>
        /\ ev.kind = "many" =>
              /\ DOMAIN ev.out = DOMAIN problem.expected_points_
              /\ \A x \in DOMAIN ev.out : Near(ev.out[x], problem.expected_points_[x])
              /\ OutRow(0, 0) = One /\ OutRow(0, 1) = Zero
              /\ OutRow(10, 0) = Zero /\ OutRow(10, 1) = R(-1)
        /\ ev.kind = "single" =>
              \A k \in DOMAIN problem.eval_pos_ :
                  ev.pos[0] = problem.eval_pos_[k] =>
                      \A j \in Dims :
                          Near(ev.out[j], problem.expected_points_[k * num_dims_ + j])

C7_Witness ==
    /\ pc = "evaluated" /\ problem = test_problem2 /\ ev.kind = "many"
    /\ Near(OutRow(5, 0), Q(-7917, 10000)) /\ Near(OutRow(5, 1), Q(7917, 10000))
    /\ ~(OutRow(5, 0) = Q(-7917, 10000))

\* the rows the builder is to produce, written from the row construction rule
TangentOrZero(tangent, j) == IF tangent.null THEN Zero ELSE tangent.v[j]
P(i, j) == problem.points_[i * problem.num_dims_ + j]

ExpectedRowD(i, j) ==
    LET n1 == problem.num_points_ - 1
    IN  IF i = 0
        THEN CASE problem.left_bc_ = Natural -> Zero
               [] problem.left_bc_ = Hermite ->
                    RMul(Six, RSub(RSub(P(1, j), P(0, j)),
                                   TangentOrZero(problem.left_tangent_, j)))
               [] problem.left_bc_ = Periodic ->
                    RMul(Six, RSub(RSub(P(1, j), P(0, j)), RSub(P(0, j), P(n1, j))))
        ELSE IF i = n1
        THEN CASE problem.right_bc_ = Natural -> Zero
               [] problem.right_bc_ = Hermite ->
                    RMul(Six, RSub(TangentOrZero(problem.right_tangent_, j),
                                   RSub(P(n1, j), P(n1 - 1, j))))
               [] problem.right_bc_ = Periodic ->
                    RMul(Six, RSub(RSub(P(0, j), P(n1, j)), RSub(P(n1, j), P(n1 - 1, j))))
        ELSE RMul(Six, RSub(RSub(P(i + 1, j), P(i, j)), RSub(P(i, j), P(i - 1, j))))

ExpectedRowABC(i) ==
    LET n1 == problem.num_points_ - 1
    IN  IF i = 0
        THEN CASE problem.left_bc_ = Natural -> <<0, 1, 0>>
               [] problem.left_bc_ = Hermite -> <<0, 2, 1>>
               [] problem.left_bc_ = Periodic -> <<1, 4, 1>>
        ELSE IF i = n1
        THEN CASE problem.right_bc_ = Natural -> <<0, 1, 0>>
               [] problem.right_bc_ = Hermite -> <<1, 2, 0>>
               [] problem.right_bc_ = Periodic -> <<1, 4, 1>>
        ELSE <<1, 4, 1>>

\* the tangents that a Hermite end reads are supplied
HermiteTangentsGiven ==
    /\ problem.left_bc_ = Hermite => ~problem.left_tangent_.null
    /\ problem.right_bc_ = Hermite => ~problem.right_tangent_.null

\* C8: for n >= 2 and every boundary pair over {Natural, Hermite, Periodic},
\* the rows a, b, c, d the builder hands to the solver are exactly those of
\* the row construction rule (interior 1,4,1 with the second difference times
\* 6; the Natural, Hermite and Periodic boundary rows), so that a tangent at
\* an end that is not Hermite has no effect.
C8_BuilderRows ==
    (Configured /\ num_points_ >= 2 /\ HermiteTangentsGiven
        /\ problem.left_bc_ \in {Natural, Hermite, Periodic}
        /\ problem.right_bc_ \in {Natural, Hermite, Periodic}) =>
        /\ \A i \in Rows :
              <<built.a[i], built.b[i], built.c[i]>> =
                  <<R(ExpectedRowABC(i)[1]), R(ExpectedRowABC(i)[2]),
                    R(ExpectedRowABC(i)[3])>>
        /\ \A i \in Rows : \A j \in Dims :
              built.d[i * num_dims_ + j] = ExpectedRowD(i, j)

\* C9: a set call with NotAKnot at either end does not return normally with
\* moments.
C9_NotAKnotRejected ==
    (/\ problem.num_points_ >= 2
     /\ (problem.left_bc_ = NotAKnot \/ problem.right_bc_ = NotAKnot)) => ~Configured

\* C10: a set call with num_points = 0 or 1 never returns normally leaving a
\* spline on which a later eval reads a point or moment row outside [0, n-1].
C10_DegenerateInputRejected ==
    (/\ problem.num_points_ < 2
     /\ ~SetReadsOutOfBounds(problem)
     /\ pc = "evaluated") =>
        ev.rows \subseteq 0 .. num_points_ - 1

(***************************************************************************)
(* eval on an object on which set was never called.  Spline::Spline()      *)
(* initialises no field: num_points_ and num_dims_ hold whatever the       *)
(* memory holds, points_ points nowhere and the dynamic moments_ is empty, *)
(* so every points_[..] and moments_[..] eval reads lies outside a buffer. *)
(* pc stays "constructed" when such an eval returns.                       *)
(***************************************************************************)
Unset ==
    /\ num_points_ \in 0 .. MaxPoints
    /\ num_dims_ \in 0 .. MaxDims
    /\ points_ = <<>>
    /\ moments_ = Storage(0)
    /\ pc = "constructed"
    /\ built = NoSystem
    /\ ev = NoEval

\* one call eval(pos, out_point) on the unset object: the index from the
\* value num_points_ holds, num_dims_ iterations of the output loop
EvalUnsetOnce(pos, g) ==
    IF EvalIndexDefined(pos, num_points_)
    THEN LET it == EvalIndex(pos, num_points_)
         IN  [rows |-> IF num_dims_ = 0 THEN {} ELSE {it.i, it.i + 1},
              out |-> [j \in 0 .. num_dims_ - 1 |->
                         EvalFormula(it.t,
                                     PointAt(points_, 0, it.i * num_dims_ + j, g),
                                     PointAt(points_, 0, (it.i + 1) * num_dims_ + j, g),
                                     PointAt(moments_, 0, it.i * num_dims_ + j, g),
                                     PointAt(moments_, 0, (it.i + 1) * num_dims_ + j, g))]]
    ELSE [rows |-> IF num_dims_ = 0 THEN {} ELSE {-1},
          out |-> [j \in 0 .. num_dims_ - 1 |-> g]]

\* Spline::eval(pos, out_point) before any set
EvalUnset(pos) ==
    /\ pc = "constructed"
    /\ UNCHANGED <<num_points_, num_dims_, points_, moments_, problem, built>>
    /\ \/ \E g \in Indeterminate(TRUE) :
            LET e == EvalUnsetOnce(pos, g)
            IN  /\ ev' = [kind |-> "single", pos |-> [k \in {0} |-> pos],
                          rows |-> e.rows, out |-> e.out]
                /\ pc' = pc
       \/ /\ num_dims_ > 0
          /\ ev' = [kind |-> "single", pos |-> [k \in {0} |-> pos],
                    rows |-> {}, out |-> <<>>]
          /\ pc' = "crashed"

\* Spline::eval(pos, num_pos, out_points) before any set
EvalManyUnset(pos) ==
    LET num_pos == Cardinality(DOMAIN pos)
    IN  /\ pc = "constructed"
        /\ UNCHANGED <<num_points_, num_dims_, points_, moments_, problem, built>>
        /\ \/ \E g \in Indeterminate(TRUE) :
                LET e == [i \in DOMAIN pos |-> EvalUnsetOnce(pos[i], g)]
                IN  /\ ev' = [kind |-> "many", pos |-> pos,
                              rows |-> UNION {e[i].rows : i \in DOMAIN pos},
                              out |-> [x \in 0 .. num_pos * num_dims_ - 1 |->
                                         e[x \div num_dims_].out[x % num_dims_]]]
                    /\ pc' = pc
           \/ /\ num_dims_ > 0
              /\ ev' = [kind |-> "many", pos |-> pos, rows |-> {}, out |-> <<>>]
              /\ pc' = "crashed"

\* a caller that may evaluate before it configures
InitUnset == Unset /\ TestInstance /\ problem \in {test_problem1, test_problem2}

TestEvalUnset ==
    /\ \E k \in DOMAIN problem.eval_pos_ : EvalUnset(problem.eval_pos_[k])
    /\ UNCHANGED aux

TestEvalManyUnset ==
    pc = "constructed" /\ EvalManyUnset(problem.eval_pos_) /\ UNCHANGED aux

NextUnset == TestEvalUnset \/ TestEvalManyUnset \/ TestSet \/ TestEval \/ TestEvalMany

SpecUnset == InitUnset /\ [][NextUnset]_vars

\* C11: eval (single or batched) on an object on which no set has completed
\* reads no row of points or moments; whenever an eval has read rows, a set
\* call has completed before it.  (Stated for eval calls whose index
\* computation is defined, i.e. num_points_ holds a value >= 2.)
C11_EvalBeforeSetFailsFast ==
    (ev.kind # "none" /\ ev.rows # {} /\ num_points_ >= 2) => pc # "constructed"

\* the tangent argument with an absent tangent replaced by the explicit
\* all-zero vector
ZeroFilled(tangent, num_dims) == IF tangent.null THEN ZeroTangent(num_dims) ELSE tangent

\* the system and the moments of the same set call with explicit zero
\* tangents in place of the absent ones
BuiltZeroFilled ==
    BuildSystem(problem.points_, problem.num_points_ * problem.num_dims_,
                problem.num_points_, problem.num_dims_,
                problem.left_bc_, problem.right_bc_,
                ZeroFilled(problem.left_tangent_, problem.num_dims_),
                ZeroFilled(problem.right_tangent_, problem.num_dims_), Zero)

HermiteWithoutTangent ==
    \/ problem.left_bc_ = Hermite /\ problem.left_tangent_.null
    \/ problem.right_bc_ = Hermite /\ problem.right_tangent_.null

\* C12: a set call with n >= 2 and a Hermite end whose tangent is absent
\* returns normally with exactly the rows and the moments of the same call
\* with an explicit all-zero tangent at that end, whatever the other end is.
C12_ImplicitZeroTangent ==
    (pc = "configured" /\ problem.num_points_ >= 2 /\ HermiteWithoutTangent) =>
        /\ built = BuiltZeroFilled
        /\ moments_ = SolveSystem(BuiltZeroFilled, problem.num_points_,
                                  problem.num_dims_).d

C12_Witness ==
    /\ pc = "configured" /\ num_points_ >= 3 /\ num_dims_ >= 2
    /\ problem.left_bc_ = Hermite /\ problem.left_tangent_.null
    /\ problem.right_bc_ = Periodic
    /\ ~(Point(1, 0) = Point(0, 0))
    /\ built.d[0] = RMul(Six, RSub(Point(1, 0), Point(0, 0)))
    /\ ~(Moment(0, 0) = Zero)

(***************************************************************************)
(* Spline::set statement by statement, on the object's own moments_ (the   *)
(* m of compute_moments and the d of tdma are references to it): entry,    *)
(* resize, one builder row at a time, the entry of tdma, one solver row at *)
(* a time, return.  problem holds the arguments of the call; run holds the *)
(* position and the local buffers a, b, c, q.  The calls have n >= 2       *)
(* points, so no step reads outside the caller's point buffer.             *)
(***************************************************************************)
\* the instance has run-time sizes
IsDynamic == NumPoints = Dynamic \/ NumDims = Dynamic

\* StorageType<T, N>(size): size zeros when dynamic, else N values that
\* nothing initialised
LocalStorage(size, g) ==
    IF NumPoints = Dynamic THEN Storage(size) ELSE [i \in 0 .. NumPoints - 1 |-> g]

\* the buffers tdma works on
Work == [a |-> run.a, b |-> run.b, c |-> run.c, d |-> moments_, q |-> run.q]

\* set, entry: the three assignments
SetEnter(p) ==
    /\ run.at = "idle" /\ pc # "crashed"
    /\ num_points_' = p.num_points_
    /\ num_dims_' = p.num_dims_
    /\ points_' = p.points_
    /\ problem' = p
    /\ run' = [NotRunning EXCEPT !.at = "resize", !.before = num_points_]
    /\ pc' = "setting"
    /\ built' = NoSystem
    /\ ev' = NoEval
    /\ UNCHANGED <<moments_, NumPoints, NumDims, locking>>

\* set: the resize of moments_, and the allocation of a, b, c at the entry of
\* compute_moments
SetResize ==
    /\ run.at = "resize" /\ pc = "setting"
    /\ moments_' = IF IsDynamic THEN Storage(num_points_ * num_dims_) ELSE moments_
    /\ \E g \in Indeterminate(NumPoints # Dynamic) :
          run' = [run EXCEPT !.at = "build", !.i = 0,
                             !.a = LocalStorage(num_points_, g),
                             !.b = LocalStorage(num_points_, g),
                             !.c = LocalStorage(num_points_, g)]
    /\ UNCHANGED <<num_points_, num_dims_, points_, pc, problem, built, ev,
                   NumPoints, NumDims, locking>>

\* mutant of SetBuildRow: the row's d is added to what m holds
SetBuildRowAccumulate ==
    /\ run.at = "build" /\ pc = "setting"
    /\ LET i == run.i
           row == BuildRow(points_, num_points_ * num_dims_, num_points_, num_dims_,
                           problem.left_bc_, problem.right_bc_,
                           problem.left_tangent_, problem.right_tangent_, Zero, i)
           m == [k \in DOMAIN moments_ |->
                   IF k \div num_dims_ = i
                   THEN RAdd(moments_[k], row.d[k % num_dims_]) ELSE moments_[k]]
           a == [run.a EXCEPT ![i] = row.a]
           b == [run.b EXCEPT ![i] = row.b]
           c == [run.c EXCEPT ![i] = row.c]
           last == i = num_points_ - 1
       IN  /\ moments_' = m
           /\ run' = [run EXCEPT !.a = a, !.b = b, !.c = c, !.i = i + 1,
                                 !.at = IF last THEN "solve" ELSE "build"]
           /\ built' = IF last THEN [a |-> a, b |-> b, c |-> c, d |-> m] ELSE built
    /\ UNCHANGED <<num_points_, num_dims_, points_, pc, problem, ev,
                   NumPoints, NumDims, locking>>

\* compute_moments: iteration run.i of the row loop
SetBuildRow ==
    /\ run.at = "build" /\ pc = "setting"
    /\ LET i == run.i
           row == BuildRow(points_, num_points_ * num_dims_, num_points_, num_dims_,
                           problem.left_bc_, problem.right_bc_,
                           problem.left_tangent_, problem.right_tangent_, Zero, i)
           m == [k \in DOMAIN moments_ |->
                   IF k \div num_dims_ = i THEN row.d[k % num_dims_] ELSE moments_[k]]
           a == [run.a EXCEPT ![i] = row.a]
           b == [run.b EXCEPT ![i] = row.b]
           c == [run.c EXCEPT ![i] = row.c]
           last == i = num_points_ - 1
       IN  /\ moments_' = m
           /\ run' = [run EXCEPT !.a = a, !.b = b, !.c = c, !.i = i + 1,
                                 !.at = IF last THEN "solve" ELSE "build"]
           /\ built' = IF last THEN [a |-> a, b |-> b, c |-> c, d |-> m] ELSE built
    /\ UNCHANGED <<num_points_, num_dims_, points_, pc, problem, ev,
                   NumPoints, NumDims, locking>>

\* compute_moments "Solve spline problem" and the entry of tdma: q is
\* allocated for the perturbed problem only; is_perturbed, vn, "Modify problem"
SetSolve ==
    /\ run.at = "solve" /\ pc = "setting"
    /\ \E g \in Indeterminate(NumPoints # Dynamic) :
          LET passed == IsPerturbed(run.a, run.c, num_points_)
              st == [Work EXCEPT !.q = IF passed THEN LocalStorage(num_points_, g)
                                       ELSE NullQ]
              is_perturbed == IsPerturbed(st.a, st.c, num_points_)
              s0 == IF is_perturbed THEN ModifyProblem(st, num_points_) ELSE st
          IN  run' = [run EXCEPT !.at = "forward", !.i = 1,
                                 !.a = s0.a, !.b = s0.b, !.c = s0.c, !.q = s0.q,
                                 !.is_perturbed = is_perturbed,
                                 !.vn = Vn(st, num_points_)]
    /\ UNCHANGED <<num_points_, num_dims_, points_, moments_, pc, problem, built, ev,
                   NumPoints, NumDims, locking>>

\* tdma: iteration run.i of the forward elimination
SetForward ==
    /\ run.at = "forward" /\ pc = "setting"
    /\ LET s1 == ForwardStep(Work, num_dims_, run.is_perturbed, run.i)
       IN  /\ moments_' = s1.d
           /\ run' = [run EXCEPT !.b = s1.b, !.q = s1.q, !.i = run.i + 1,
                                 !.at = IF run.i + 1 < num_points_
                                        THEN "forward" ELSE "last"]
    /\ UNCHANGED <<num_points_, num_dims_, points_, pc, problem, built, ev,
                   NumPoints, NumDims, locking>>

\* tdma: backward substitution, row n-1
SetBackwardLast ==
    /\ run.at = "last" /\ pc = "setting"
    /\ LET s2 == BackwardLast(Work, num_points_, num_dims_, run.is_perturbed)
       IN  /\ moments_' = s2.d
           /\ run' = [run EXCEPT !.q = s2.q, !.i = num_points_ - 2, !.at = "backward"]
    /\ UNCHANGED <<num_points_, num_dims_, points_, pc, problem, built, ev,
                   NumPoints, NumDims, locking>>

\* tdma: iteration run.i of the backward substitution loop
SetBackward ==
    /\ run.at = "backward" /\ pc = "setting"
    /\ LET s3 == BackwardStep(Work, num_dims_, run.is_perturbed, run.i)
       IN  /\ moments_' = s3.d
           /\ run' = [run EXCEPT !.q = s3.q, !.i = run.i - 1,
                                 !.at = IF run.i - 1 >= 0 THEN "backward"
                                        ELSE IF run.is_perturbed THEN "reconstruct"
                                        ELSE "return"]
    /\ UNCHANGED <<num_points_, num_dims_, points_, pc, problem, built, ev,
                   NumPoints, NumDims, locking>>

\* tdma: "Reconstruct solution"
SetReconstruct ==
    /\ run.at = "reconstruct" /\ pc = "setting"
    /\ moments_' = Reconstruct(Work, num_points_, num_dims_, run.vn).d
    /\ run' = [run EXCEPT !.at = "return"]
    /\ UNCHANGED <<num_points_, num_dims_, points_, pc, problem, built, ev,
                   NumPoints, NumDims, locking>>

\* tdma, compute_moments and set return; the local buffers are gone
SetReturn ==
    /\ run.at = "return" /\ pc = "setting"
    /\ run' = [NotRunning EXCEPT !.before = run.before]
    /\ pc' = "configured"
    /\ UNCHANGED <<num_points_, num_dims_, points_, moments_, problem, built, ev,
                   NumPoints, NumDims, locking>>

\* a read of buf[k]; outside the buffer it yields g
ReadAt(buf, k, g) == IF k \in DOMAIN buf THEN buf[k] ELSE g

\* the entries of moments_ that eval(pos, ..) reads
MomentEntries(pos) ==
    LET it == EvalIndex(pos, num_points_)
    IN  {r * num_dims_ + j : r \in {it.i, it.i + 1}, j \in 0 .. num_dims_ - 1}

\* mutant of EvalOverlapped: the eval does not wait for the lock
EvalOverlappedUnlocked(pos) ==
    LET it == EvalIndex(pos, num_points_)
        oob == ~(MomentEntries(pos) \subseteq DOMAIN moments_)
    IN  /\ pc = "setting"
        /\ \/ \E g \in Indeterminate(oob) :
                /\ ev' = [kind |-> "overlapped", pos |-> [k \in {0} |-> pos],
                          rows |-> {it.i, it.i + 1},
                          out |-> [j \in 0 .. num_dims_ - 1 |->
                                     EvalFormula(it.t,
                                         ReadAt(points_, it.i * num_dims_ + j, g),
                                         ReadAt(points_, (it.i + 1) * num_dims_ + j, g),
                                         ReadAt(moments_, it.i * num_dims_ + j, g),
                                         ReadAt(moments_, (it.i + 1) * num_dims_ + j, g))]]
                /\ pc' = pc
           \/ /\ oob
              /\ ev' = [kind |-> "overlapped", pos |-> [k \in {0} |-> pos],
                        rows |-> {}, out |-> <<>>]
              /\ pc' = "crashed"
        /\ UNCHANGED <<num_points_, num_dims_, points_, moments_, problem, built,
                       NumPoints, NumDims, run, locking>>

\* Spline::eval(pos, out_point) of a second thread while the set call is in
\* flight: it reads the fields and the moments as they are at that moment
\* (all its reads at once)
EvalOverlapped(pos) ==
    LET it == EvalIndex(pos, num_points_)
        oob == ~(MomentEntries(pos) \subseteq DOMAIN moments_)
    IN  /\ pc = "setting" /\ ~locking
        /\ \/ \E g \in Indeterminate(oob) :
                /\ ev' = [kind |-> "overlapped", pos |-> [k \in {0} |-> pos],
                          rows |-> {it.i, it.i + 1},
                          out |-> [j \in 0 .. num_dims_ - 1 |->
                                     EvalFormula(it.t,
                                         ReadAt(points_, it.i * num_dims_ + j, g),
                                         ReadAt(points_, (it.i + 1) * num_dims_ + j, g),
                                         ReadAt(moments_, it.i * num_dims_ + j, g),
                                         ReadAt(moments_, (it.i + 1) * num_dims_ + j, g))]]
                /\ pc' = pc
           \/ /\ oob
              /\ ev' = [kind |-> "overlapped", pos |-> [k \in {0} |-> pos],
                        rows |-> {}, out |-> <<>>]
              /\ pc' = "crashed"
        /\ UNCHANGED <<num_points_, num_dims_, points_, moments_, problem, built,
                       NumPoints, NumDims, run, locking>>

(***************************************************************************)
(* Callers that use one instance again and again: set calls with different *)
(* sizes, boundary conditions and points, eval calls between them, and,    *)
(* unless the callers lock, eval calls of a second thread during a set.    *)
(* The instance is Spline<T, Dynamic, Dynamic> or has fixed sizes, and     *)
(* then the calls have these sizes.                                        *)
(***************************************************************************)
MaxStepPoints == 3

\* the first point column of the calls: 0,1,0,..
StepColumns(n) == {[i \in 0 .. n - 1 |-> i % 2]}

StepPositions == {Q(1, 2), One}

FitsInstance(n, m) == IsDynamic \/ (n = NumPoints /\ m = NumDims)

InitSteps ==
    /\ \/ NumPoints = Dynamic /\ NumDims = Dynamic
       \/ NumPoints \in 2 .. MaxStepPoints /\ NumDims \in 1 .. MaxDims
    /\ locking \in BOOLEAN
    /\ num_points_ = 0 /\ num_dims_ = 0 /\ points_ = <<>>
    /\ \E g \in Indeterminate(~IsDynamic) :
          moments_ = [k \in 0 .. NumPoints * NumDims - 1 |-> g]
    /\ pc = "constructed"
    /\ built = NoSystem /\ ev = NoEval /\ run = NotRunning
    /\ problem = test_problem1

CallSet ==
    \E n \in 2 .. MaxStepPoints, m \in 1 .. MaxDims :
    \E s \in StepColumns(n) :
    \E lbc \in {Natural, Hermite, Periodic}, rbc \in {Natural, Hermite, Periodic} :
       /\ FitsInstance(n, m)
       /\ SetEnter(GeneratedProblem(s, n, m, lbc, rbc, LeftTangent(m), RightTangent(m)))

CallEval ==
    /\ run.at = "idle"
    /\ \E pos \in StepPositions : Eval(pos)
    /\ UNCHANGED aux

CallEvalMany ==
    /\ run.at = "idle"
    /\ EvalMany(problem.eval_pos_)
    /\ UNCHANGED aux

CallEvalOverlapped ==
    run.at # "idle" /\ \E pos \in StepPositions : EvalOverlapped(pos)

NextSteps ==
    \/ CallSet \/ SetResize \/ SetBuildRow \/ SetSolve \/ SetForward
    \/ SetBackwardLast \/ SetBackward \/ SetReconstruct \/ SetReturn
    \/ CallEval \/ CallEvalMany \/ CallEvalOverlapped

SpecSteps == InitSteps /\ [][NextSteps]_vars

\* what a new instance holds after one set call with the arguments of the
\* most recent call
FreshMoments ==
    compute_moments(problem.points_, problem.num_points_ * problem.num_dims_,
                    problem.num_points_, problem.num_dims_,
                    problem.left_bc_, problem.right_bc_,
                    problem.left_tangent_, problem.right_tangent_, Zero)

AsFresh ==
    /\ num_points_ = problem.num_points_
    /\ num_dims_ = problem.num_dims_
    /\ points_ = problem.points_
    /\ moments_ = FreshMoments

\* C13: after every sequence of set and eval calls on one instance, once the
\* most recent set has returned (pc = "configured"), num_points_, num_dims_,
\* points_ and moments_ are those of a new instance after one set with the
\* same arguments, whatever the earlier calls were; and they still are after
\* every eval call that follows (pc = "evaluated"): eval changes none of them.
C13_MomentsValidAcrossCalls ==
    (pc \in {"configured", "evaluated"}) => AsFresh

C13_Witness ==
    /\ pc = "evaluated" /\ ev.kind = "many"
    /\ run.before = 3 /\ num_points_ = 2 /\ num_dims_ = 2
    /\ IsDynamic
    /\ problem.left_bc_ = Periodic /\ problem.right_bc_ = Hermite
    /\ AsFresh
    /\ ~(Moment(0, 0) = Zero)

\* what eval(pos, ..) returns on the moments m and the points of the most
\* recent set call
OutOn(pos, m) ==
    EvalPoint(pos, problem.num_points_, problem.num_dims_, problem.points_, m, Zero)

\* the right-hand side d of the system of the most recent set call
RawD ==
    BuildSystem(problem.points_, problem.num_points_ * problem.num_dims_,
                problem.num_points_, problem.num_dims_,
                problem.left_bc_, problem.right_bc_,
                problem.left_tangent_, problem.right_tangent_, Zero).d

SizesWritten ==
    /\ num_points_ = problem.num_points_
    /\ num_dims_ = problem.num_dims_
    /\ points_ = problem.points_

\* C20: a set call writes num_points_, num_dims_ and points_ first, then
\* zeroes the (dynamic) moments, then fills them with the right-hand side d,
\* and only then solves in place, so that the moments are those of the new
\* system only on return; an eval outside a set call reads solved moments;
\* and when the callers take the read-write lock no eval overlaps a set call.
\* (That an overlapping eval reads unsolved moments is the witness.)
C20_SetEvalNotAtomic ==
    /\ run.at # "idle" => SizesWritten
    /\ (run.at = "build" /\ run.i = 0 /\ IsDynamic) =>
            moments_ = Storage(num_points_ * num_dims_)
    /\ run.at = "solve" => (moments_ = RawD /\ built.d = RawD)
    /\ run.at = "return" => moments_ = FreshMoments
    /\ locking => ev.kind # "overlapped"
    /\ (ev.kind = "single" /\ ev.out # <<>>) =>
            (moments_ = FreshMoments /\ ev.out = OutOn(ev.pos[0], FreshMoments))
    /\ (ev.kind = "many" /\ ev.out # <<>>) =>
            /\ moments_ = FreshMoments
            /\ \A k \in DOMAIN ev.pos : \A j \in Dims :
                  OutRow(k, j) = OutOn(ev.pos[k], FreshMoments)[j]

\* an eval that overlapped a set call has read the new sizes and points
\* together with the raw right-hand side d: its output is neither that on
\* the solved moments nor that on zeroed moments
C20_Witness ==
    /\ ~locking /\ pc = "setting" /\ ev.kind = "overlapped"
    /\ run.at \in {"solve", "forward", "last", "backward", "reconstruct", "return"}
    /\ run.before = 3 /\ num_points_ = 2
    /\ ev.out = OutOn(ev.pos[0], RawD)
    /\ ev.out # OutOn(ev.pos[0], FreshMoments)
    /\ ev.out # OutOn(ev.pos[0], Storage(num_points_ * num_dims_))

\* what the single-position eval(pos, ..) writes on the configured object
SingleOut(pos) == EvalPoint(pos, num_points_, num_dims_, points_, moments_, Zero)

\* C14: on a configured spline (n >= 2), the batched eval of k positions
\* writes exactly the entries 0 .. k*m-1 of its output, and row i of it (the
\* entries i*m .. i*m+m-1) holds the m values the single-position eval writes
\* for position i.
C14_BatchedEval ==
    (pc = "evaluated" /\ ev.kind = "many" /\ num_points_ >= 2) =>
        LET k == Cardinality(DOMAIN ev.pos)
        IN  /\ DOMAIN ev.pos = 0 .. k - 1
            /\ DOMAIN ev.out = 0 .. k * num_dims_ - 1
            /\ \A i \in 0 .. k - 1 : \A j \in Dims :
                  ev.out[i * num_dims_ + j] = SingleOut(ev.pos[i])[j]

C14_Witness ==
    /\ pc = "evaluated" /\ ev.kind = "many" /\ problem = test_problem2
    /\ Cardinality(DOMAIN ev.out) = 22
    /\ ev.out[7] = SingleOut(Q(3, 10))[1]
    /\ ev.out[6] = SingleOut(Q(3, 10))[0]
    /\ ~(ev.out[7] = ev.out[6])
    /\ ~(ev.out[7] = SingleOut(Q(7, 10))[0])

(***************************************************************************)
(* Spline<T, NumPoints, NumDims> with both sizes fixed: moments_ is a      *)
(* std::array of NumPoints*NumDims values, a, b, c and q are std::arrays   *)
(* of NumPoints values, and resize does nothing.  set takes the run-time   *)
(* sizes as they come.  The callers construct, call set once, and eval.   *)
(***************************************************************************)
\* the builder writes a[i], b[i], c[i] for i < num_points and
\* m[i*num_dims + j]: some index is at or beyond the capacity of its array
SetWritesBeyondCapacity(p) ==
    /\ ~IsDynamic
    /\ \/ p.num_points_ > NumPoints
       \/ p.num_points_ * p.num_dims_ > NumPoints * NumDims

\* Spline::set(points, num_points, num_dims, ..) on the fixed-size instance.
\* built keeps the rows the builder wrote.  Within the capacity the call
\* fills the first num_points*num_dims moments and returns; beyond it the
\* writes land outside the arrays, and the call crashes or returns with
\* moments that are the solved ones or g.
SetOnFixed(p) ==
    /\ ~IsDynamic /\ pc # "crashed"
    /\ num_points_' = p.num_points_
    /\ num_dims_' = p.num_dims_
    /\ points_' = p.points_
    /\ problem' = p
    /\ ev' = NoEval
    /\ run' = [NotRunning EXCEPT !.before = num_points_]
    /\ LET len == p.num_points_ * p.num_dims_
           sys == BuildSystem(p.points_, len, p.num_points_, p.num_dims_,
                              p.left_bc_, p.right_bc_,
                              p.left_tangent_, p.right_tangent_, Zero)
           solved == SolveSystem(sys, p.num_points_, p.num_dims_).d
           filled == [k \in DOMAIN moments_ |->
                        IF k < len THEN solved[k] ELSE moments_[k]]
       IN  /\ built' = sys
           /\ \/ /\ ~SetWritesBeyondCapacity(p)
                 /\ moments_' = filled
                 /\ pc' = "configured"
              \/ /\ SetWritesBeyondCapacity(p)
                 /\ \E g \in Indeterminate(TRUE) :
                       moments_' \in {filled, [k \in DOMAIN moments_ |-> g]}
                 /\ pc' \in {"configured", "crashed"}
    /\ UNCHANGED <<NumPoints, NumDims, locking>>

\* Spline<T, NumPoints, NumDims> spline, NumPoints > 1 and NumDims > 0
InitFixed ==
    /\ NumPoints \in 2 .. MaxStepPoints /\ NumDims \in 1 .. MaxDims
    /\ locking = FALSE
    /\ num_points_ = 0 /\ num_dims_ = 0 /\ points_ = <<>>
    /\ \E g \in Indeterminate(TRUE) :
          moments_ = [k \in 0 .. NumPoints * NumDims - 1 |-> g]
    /\ pc = "constructed"
    /\ built = NoSystem /\ ev = NoEval /\ run = NotRunning
    /\ problem = test_problem1

\* set(points, left_bc, right_bc, ..): the sizes are NumPoints and NumDims
CallSetFixedSizes ==
    \E s \in StepColumns(NumPoints) :
    \E lbc \in {Natural, Hermite, Periodic}, rbc \in {Natural, Hermite, Periodic} :
       /\ pc = "constructed"
       /\ SetOnFixed(GeneratedProblem(s, NumPoints, NumDims, lbc, rbc,
                                      LeftTangent(NumDims), RightTangent(NumDims)))

\* set(points, num_points, num_dims, left_bc, right_bc, ..)
CallSetRunTimeSizes ==
    \E n \in 2 .. MaxStepPoints, m \in 1 .. MaxDims :
    \E s \in StepColumns(n) :
    \E lbc \in {Natural, Hermite, Periodic}, rbc \in {Natural, Hermite, Periodic} :
       /\ pc = "constructed" /\ ~FitsInstance(n, m)
       /\ SetOnFixed(GeneratedProblem(s, n, m, lbc, rbc, LeftTangent(m), RightTangent(m)))

\* eval on the fixed-size instance; the rows it reads are inside moments_
CallEvalOnFixed ==
    /\ num_points_ * num_dims_ <= NumPoints * NumDims
    /\ \E pos \in StepPositions : Eval(pos)
    /\ UNCHANGED aux

NextFixed == CallSetFixedSizes \/ CallSetRunTimeSizes \/ CallEvalOnFixed

SpecFixed == InitFixed /\ [][NextFixed]_vars

\* C15: on a fixed-size instance, once a set call has been made whose
\* run-time num_points or num_dims differs from NumPoints or NumDims, the
\* call has not returned normally and has not crashed, num_points_ is what
\* it was before the call, and every row the builder wrote is below the
\* capacity NumPoints of a, b, c (and every moment written is below
\* NumPoints*NumDims).
C15_MismatchedSizesRejected ==
    (pc # "constructed" /\ ~IsDynamic
       /\ ~FitsInstance(problem.num_points_, problem.num_dims_)) =>
        /\ pc \notin {"configured", "evaluated", "crashed"}
        /\ num_points_ = run.before
        /\ DOMAIN built.a \subseteq 0 .. NumPoints - 1
        /\ DOMAIN built.d \subseteq 0 .. NumPoints * NumDims - 1

\* the set call in flight is inside tdma, after its entry
InTdma == run.at \in {"forward", "last", "backward", "reconstruct", "return"}

\* C16: for every set call with n >= 2 points, when the builder phase is over
\* a[0] # 0 or c[n-1] # 0 holds iff one of the two boundary conditions is
\* Periodic; inside tdma is_perturbed holds iff one of them is Periodic, q is
\* a buffer of n values iff is_perturbed (so the assertion on q holds) and
\* is null, untouched, through every step of the strict path; and the
\* reconstruction runs on the perturbed path only.
C16_RegimeSelection ==
    /\ run.at = "solve" =>
          ((run.a[0] # Zero \/ run.c[num_points_ - 1] # Zero) <=> PerturbedPair)
    /\ InTdma =>
          /\ run.is_perturbed <=> PerturbedPair
          /\ run.is_perturbed <=> (built.a[0] # Zero \/ built.c[num_points_ - 1] # Zero)
          /\ run.is_perturbed <=> run.q # NullQ
          /\ run.is_perturbed => DOMAIN run.q = 0 .. num_points_ - 1
          /\ ~run.is_perturbed => (run.vn = Zero /\ run.a = built.a /\ run.c = built.c)
    /\ run.at = "reconstruct" => run.is_perturbed

\* a call with only the right end Periodic is on the perturbed path with q
C16_Witness ==
    /\ run.at = "reconstruct" /\ num_points_ = 3
    /\ problem.left_bc_ = Natural /\ problem.right_bc_ = Periodic
    /\ run.is_perturbed /\ DOMAIN run.q = 0 .. 2
    /\ built.a[0] = Zero /\ built.c[2] # Zero
    /\ run.q[2] # Zero

\* the buffers compute_moments hands to tdma: q only for the perturbed problem
TdmaInput(sys, num_points) ==
    [a |-> sys.a, b |-> sys.b, c |-> sys.c, d |-> sys.d,
     q |-> IF IsPerturbed(sys.a, sys.c, num_points) THEN Storage(num_points) ELSE NullQ]

\* the divisor of every division tdma executes on st: b[0] of vn, the pivot
\* b[i-1] of iteration i of the forward loop (as it is when iteration i
\* starts), b[n-1] and b[i] of the backward substitution (b is not written
\* after the forward loop), and 1 + vq
TdmaDivisors(num_points, num_dims, st) ==
    LET n1 == num_points - 1
        is_perturbed == IsPerturbed(st.a, st.c, num_points)
        vn == Vn(st, num_points)
        s0 == IF is_perturbed THEN ModifyProblem(st, num_points) ELSE st
        before(i) == ForwardElimination(s0, i, num_dims, is_perturbed, 1)
        s1 == before(num_points)
        s2 == BackwardLast(s1, num_points, num_dims, is_perturbed)
        s3 == BackwardSubstitution(s2, num_dims, is_perturbed, num_points - 2)
    IN  [vn |-> IF is_perturbed THEN {st.b[0]} ELSE {},
         forward |-> [i \in 1 .. n1 |-> before(i).b[i - 1]],
         last |-> s1.b[n1],
         backward |-> [i \in 0 .. n1 - 1 |-> s2.b[i]],
         vq |-> IF is_perturbed
                THEN {RAdd(One, RSub(s3.q[0], RMul(s3.q[n1], vn)))}
                ELSE {}]

\* the system of num_points points that are all 0, in one dimension, without
\* tangents
ZeroPointSystem(num_points, left_bc, right_bc) ==
    BuildSystem([k \in 0 .. num_points - 1 |-> Zero], num_points, num_points, 1,
                left_bc, right_bc, NullTangent, NullTangent, Zero)

NonZero(v) == v # Zero /\ v # NaN

\* C17: for every set call with n >= 2 points and each of the 9 pairs of
\* Natural, Hermite and Periodic, no divisor tdma uses is zero (b[0] of vn,
\* the forward pivots b[i-1], b[n-1] and b[i] of the backward substitution,
\* 1 + vq), and the divisors are those of the system of n zero points with
\* the same boundary pair: they do not depend on the points or tangents.
C17_NoDivisionByZero ==
    (Configured /\ num_points_ >= 2
       /\ problem.left_bc_ \in {Natural, Hermite, Periodic}
       /\ problem.right_bc_ \in {Natural, Hermite, Periodic}) =>
        LET D == TdmaDivisors(num_points_, num_dims_, TdmaInput(built, num_points_))
        IN  /\ \A v \in D.vn \cup D.vq : NonZero(v)
            /\ \A i \in 1 .. num_points_ - 1 : NonZero(D.forward[i])
            /\ NonZero(D.last)
            /\ \A i \in 0 .. num_points_ - 2 : NonZero(D.backward[i])
            /\ D = TdmaDivisors(num_points_, 1,
                                TdmaInput(ZeroPointSystem(num_points_, problem.left_bc_,
                                                          problem.right_bc_),
                                          num_points_))

C17_Witness ==
    /\ Configured /\ num_points_ = 4 /\ num_dims_ = 2
    /\ problem.left_bc_ = Hermite /\ problem.right_bc_ = Periodic
    /\ \E k \in DOMAIN points_ : points_[k] # Zero
    /\ \E k \in DOMAIN built.d : built.d[k] # Zero
    /\ LET D == TdmaDivisors(num_points_, num_dims_, TdmaInput(built, num_points_))
       IN  /\ D.vn = {R(2)}
           /\ D.forward[3] # R(4) /\ D.forward[3] # D.forward[2]
           /\ \E v \in D.vq : NonZero(v) /\ v # One

(***************************************************************************)
(* eval at positions inside and outside [0, 1]: the test body with set on  *)
(* a problem of at least two points, then eval at a position k/PosDen      *)
(* between -1 and 3.                                                       *)
(***************************************************************************)
PosDen == 6

PositionGrid == {Q(k, PosDen) : k \in -PosDen .. 3 * PosDen}

InitPositions ==
    /\ Constructed
    /\ TestInstance
    /\ \/ problem \in {test_problem1, test_problem2}
       \/ \E n \in 2 .. MaxStepPoints, m \in 1 .. MaxDims :
          \E s \in StepColumns(n) :
          \E lbc \in {Natural, Hermite, Periodic}, rbc \in {Natural, Hermite, Periodic} :
             problem = GeneratedProblem(s, n, m, lbc, rbc, LeftTangent(m), RightTangent(m))

CallEvalAt ==
    /\ pc = "configured"
    /\ \E pos \in PositionGrid : Eval(pos)
    /\ UNCHANGED aux

NextPositions == TestSet \/ CallEvalAt

SpecPositions == InitPositions /\ [][NextPositions]_vars

\* the position of the last single eval
SinglePos == ev.pos[0]

\* C18: after an eval at a position s with 0 <= s <= 1 on a spline of
\* n >= 2 points, with k the integer such that k <= s*(n-1) < k+1: the
\* segment index and t used are k and s*(n-1) - k, or n-2 and 1 when
\* k = n-1; 0 <= idx <= n-2 and 0 <= t <= 1; the rows read are idx and
\* idx+1, inside 0 .. n-1, and the call has returned.
C18_EvalIndexMapping ==
    (ev.kind = "single" /\ num_points_ >= 2
       /\ RLe(Zero, SinglePos) /\ RLe(SinglePos, One)) =>
        LET it == EvalIndex(SinglePos, num_points_)
            x == RMul(SinglePos, R(num_points_ - 1))
        IN  /\ \E k \in 0 .. num_points_ - 1 :
                  /\ RLe(R(k), x) /\ RLt(x, R(k + 1))
                  /\ it = IF k = num_points_ - 1
                          THEN [i |-> num_points_ - 2, t |-> One]
                          ELSE [i |-> k, t |-> RSub(x, R(k))]
            /\ it.i \in 0 .. num_points_ - 2
            /\ RLe(Zero, it.t) /\ RLe(it.t, One)
            /\ ev.rows = {it.i, it.i + 1}
            /\ ev.rows \subseteq 0 .. num_points_ - 1
            /\ pc = "evaluated"

\* the eval at s = 1 on four points: segment 2 with t = 1
C18_Witness ==
    /\ ev.kind = "single" /\ pc = "evaluated" /\ problem = test_problem2
    /\ SinglePos = One
    /\ EvalIndex(SinglePos, num_points_) = [i |-> 2, t |-> One]
    /\ ev.rows = {2, 3}
    /\ ev.out = [j \in Dims |-> points_[3 * num_dims_ + j]]

\* C19: after an eval at a position s > 1 on a spline of n >= 2 points the
\* segment index used is n-2, and no row above n-1 has been read.
C19_HighEndClamped ==
    (ev.kind = "single" /\ num_points_ >= 2 /\ RLt(One, SinglePos)) =>
        /\ EvalIndex(SinglePos, num_points_).i = num_points_ - 2
        /\ \A r \in ev.rows : r <= num_points_ - 1
        /\ \A r \in EvalRows(SinglePos, num_points_) : r <= num_points_ - 1

====
